---- MODULE Spec2Model ----
(***************************************************************************)
(* StorageArea (src/src/index.ts): a typed facade over browser.storage.    *)
(*                                                                         *)
(* JavaScript objects are modelled as functions from their OWN property    *)
(* names to values.  Every plain object also inherits the members of       *)
(* Object.prototype, which the `in` operator and property reads see and    *)
(* hasOwnProperty / for-in over own keys do not; ObjectPrototypeKeys holds *)
(* the inherited names that occur in the key universe.                     *)
(*                                                                         *)
(* The specifications share the variables:                                 *)
(*   SpecStorage     the asynchronous write operations on the backend      *)
(*   SpecListeners   the Listener Registry and the change-event dispatch   *)
(*   SpecArgs        the registry calls with every argument shape          *)
(*   SpecReads       get() on an area that other writers share             *)
(*   SpecFailures    the facade's calls on a backend that can fail         *)
(*   SpecAccessors   the accessor factory and the generated fields         *)
(*   SpecForwarding  one key's operations through its accessor and on the  *)
(*                   facade                                                *)
(* The dispatch code never reads the stored values and the storage         *)
(* operations never read the registry, so each specification keeps the     *)
(* parts it does not exercise at their constructed value.                  *)
(***************************************************************************)
EXTENDS Integers, Sequences, FiniteSets, TLC

VARIABLES
    defaults,     \* this.defaults: the schema, key -> declared default
    store,        \* the backend's stored map of the facade's area
    inflight,     \* backend write calls issued by the facade, not settled yet
    init,         \* the running initDefaults() call: its position and locals
    thrown,       \* what the last facade call or _onChanged threw, or "none"
    storageName,  \* this._storageName
    listeners,    \* this._listeners: bucket -> insertion-ordered Set of callbacks
    subscribed,   \* _onChanged is registered on browser.storage.onChanged
    disposed,     \* dispose() has been called on the instance
    again,        \* the last registry call registered a callback its bucket already held
    d,            \* the running _onChanged call: its position and locals
    log,          \* the listener invocations of the running _onChanged call
    rd,           \* the running get() call: its position, key and result
    accessors,    \* this._accessors: key -> the accessor object made for it
    properties,   \* the fields Object.defineProperties put on the instance
    returned,     \* what the last accessor(key) call or field read returned
    first,        \* key -> what the first accessor(key) / field read returned
    made          \* the accessor objects _makeAccessor has created, in order

vars == <<defaults, store, inflight, init, thrown,
          storageName, listeners, subscribed, disposed, again, d, log,
          rd, accessors, properties, returned, first, made>>

storageVars == <<defaults, store, inflight, init>>
listenerVars == <<storageName, listeners, subscribed, disposed, again, d, log>>
accessVars == <<rd, accessors, properties, returned, first, made>>

(***************************************************************************)
(* Bounds of the model.                                                    *)
(***************************************************************************)
MaxValue == 2       \* setting values a caller writes: 1..MaxValue
MaxInflight == 1    \* backend write calls in flight at once
MaxChanges == 2     \* changed keys in one change event

(***************************************************************************)
(* Values.  A setting value is a positive integer.  FunctionValue stands   *)
(* for a member function of Object.prototype (what obj["toString"] reads   *)
(* when obj has no own "toString"); SerializedFunction is what a backend   *)
(* that serialises values stores for it.                                   *)
(***************************************************************************)
FunctionValue == -1
SerializedFunction == -2

Values == 1..MaxValue

Keys == {"a", "b", "toString"}

ObjectPrototypeKeys == {"toString"}

\* The schemas a facade is constructed with (options.defaults).
Schemas == {[a |-> 2, b |-> 3], [a |-> 2, toString |-> 1]}

(***************************************************************************)
(* JavaScript object primitives.                                           *)
(***************************************************************************)
EmptyObject == [k \in {} |-> 0]

Obj(f) == [k \in DOMAIN f |-> f[k]]

\* { [key]: value }
Singleton(key, value) == [k \in {key} |-> value]

\* obj.hasOwnProperty(key)
hasOwnProperty(obj, key) == key \in DOMAIN obj

\* key in obj: own properties and the prototype chain
KeyIn(key, obj) == key \in DOMAIN obj \/ key \in ObjectPrototypeKeys

\* obj[key] for a key that is `in` obj
Lookup(obj, key) == IF key \in DOMAIN obj THEN obj[key] ELSE FunctionValue

\* the backend's bulk write: the written keys replace, the others stay
Assign(target, items) ==
    [k \in DOMAIN target \cup DOMAIN items |->
        IF k \in DOMAIN items THEN items[k] ELSE target[k]]

\* what the backend keeps of a written value
Serialize(items) ==
    [k \in DOMAIN items |->
        IF items[k] = FunctionValue THEN SerializedFunction ELSE items[k]]

\* a backend that clones values structurally refuses a function
Cloneable(items) == \A k \in DOMAIN items : items[k] # FunctionValue

(***************************************************************************)
(* Storage operations.                                                     *)
(***************************************************************************)
Request(origin, items) == [origin |-> origin, items |-> items]

\* this._storage.set(items): the call is issued; it settles later
StorageSet(origin, items) ==
    /\ Cardinality(inflight) < MaxInflight
    /\ Request(origin, items) \notin inflight
    /\ inflight' = inflight \cup {Request(origin, items)}

\* set(key, value) / set(items): the normalisation of the two call shapes
SetItems(arg) ==
    IF arg.isString THEN Singleton(arg.key, arg.value) ELSE arg.items

StringArg(key, value) == [isString |-> TRUE, key |-> key, value |-> value]
ObjectArg(items) == [isString |-> FALSE, items |-> items]

\* the arguments callers pass to set()
SetArgs ==
    {StringArg(k, v) : k \in Keys, v \in Values}
    \cup {ObjectArg(EmptyObject), ObjectArg(Obj([a |-> 1, b |-> 1]))}

set(arg) ==
    /\ StorageSet("set", SetItems(arg))
    /\ thrown' = "none"
    /\ UNCHANGED <<defaults, store, init>>
    /\ UNCHANGED listenerVars
    /\ UNCHANGED accessVars

\* reset(key) as an "initialise if missing": a stored value is written back
ResetItemsKeepsStored(key) ==
    SetItems(StringArg(key, IF key \in DOMAIN store THEN store[key]
                            ELSE Lookup(defaults, key)))

\* reset(key): this.set(key, this.defaults[key])
ResetItems(key) == SetItems(StringArg(key, Lookup(defaults, key)))

reset(key) ==
    /\ IF KeyIn(key, defaults)
       THEN /\ StorageSet("reset", ResetItems(key))
            /\ thrown' = "none"
       ELSE /\ thrown' = "NoDefaultError"
            /\ UNCHANGED inflight
    /\ UNCHANGED <<defaults, store, init>>
    /\ UNCHANGED listenerVars
    /\ UNCHANGED accessVars

\* resetAll() writing only the settings that are not stored
ResetAllItemsOnlyUnset ==
    SetItems(ObjectArg([k \in DOMAIN defaults \ DOMAIN store |-> defaults[k]]))

\* resetAll(): this.set(this.defaults)
ResetAllItems == SetItems(ObjectArg(defaults))

resetAll ==
    /\ StorageSet("resetAll", ResetAllItems)
    /\ thrown' = "none"
    /\ UNCHANGED <<defaults, store, init>>
    /\ UNCHANGED listenerVars
    /\ UNCHANGED accessVars

\* initDefaults(): the unset settings, computed from the map it read
UnsetItems(setItems) ==
    [k \in {key \in DOMAIN defaults :
                hasOwnProperty(defaults, key) /\ ~KeyIn(key, setItems)}
        |-> defaults[k]]

InitIdle == [pc |-> "idle", setItems |-> EmptyObject, lost |-> {}]

\* initDefaults() is called: this.get() issues the backend read
initDefaultsCall ==
    /\ init.pc \in {"idle", "done"}
    /\ init' = [pc |-> "get", setItems |-> EmptyObject, lost |-> {}]
    /\ thrown' = "none"
    /\ UNCHANGED <<defaults, store, inflight>>
    /\ UNCHANGED listenerVars
    /\ UNCHANGED accessVars

\* the backend serves the read: the stored map of that moment
initDefaultsRead ==
    /\ init.pc = "get"
    /\ init' = [init EXCEPT !.pc = "got", !.setItems = store]
    /\ UNCHANGED <<defaults, store, inflight, thrown>>
    /\ UNCHANGED listenerVars
    /\ UNCHANGED accessVars

\* initDefaults() deciding on the stored map of the moment it writes, as if
\* its read and its write were one step
initDefaultsWriteSerialized ==
    /\ init.pc = "got"
    /\ StorageSet("initDefaults", SetItems(ObjectArg(UnsetItems(store))))
    /\ init' = [init EXCEPT !.pc = "set", !.setItems = EmptyObject]
    /\ UNCHANGED <<defaults, store, thrown>>
    /\ UNCHANGED listenerVars
    /\ UNCHANGED accessVars

\* the await resumes: unsetItems is computed and written in one set() call
initDefaultsWrite ==
    /\ init.pc = "got"
    /\ StorageSet("initDefaults", SetItems(ObjectArg(UnsetItems(init.setItems))))
    /\ init' = [init EXCEPT !.pc = "set", !.setItems = EmptyObject]
    /\ UNCHANGED <<defaults, store, thrown>>
    /\ UNCHANGED listenerVars
    /\ UNCHANGED accessVars

\* the stored keys a landing write replaces with another value
Overwritten(r) ==
    {k \in DOMAIN r.items \cap DOMAIN store : store[k] # Serialize(r.items)[k]}

\* the caller's continuation when the backend call of request r settles
Settle(r) ==
    init' = IF r.origin = "initDefaults"
            THEN [init EXCEPT !.pc = "done", !.lost = Overwritten(r)]
            ELSE init

\* a backend write lands
WriteLands(r) ==
    /\ r \in inflight
    /\ store' = Assign(store, Serialize(r.items))
    /\ inflight' = inflight \ {r}
    /\ Settle(r)
    /\ UNCHANGED <<defaults, thrown>>
    /\ UNCHANGED listenerVars
    /\ UNCHANGED accessVars

\* a backend that cannot clone a written value rejects the call
WriteRejected(r) ==
    /\ r \in inflight
    /\ ~Cloneable(r.items)
    /\ inflight' = inflight \ {r}
    /\ init' = IF r.origin = "initDefaults" THEN [init EXCEPT !.pc = "done"] ELSE init
    /\ UNCHANGED <<defaults, store, thrown>>
    /\ UNCHANGED listenerVars
    /\ UNCHANGED accessVars

(***************************************************************************)
(* Listener Registry.  A bucket is a JavaScript Set: a sequence without    *)
(* repetition, in insertion order.  AllSettings is a Symbol, so it is no   *)
(* string key: for-in does not enumerate it and no prototype member has    *)
(* its name.                                                               *)
(***************************************************************************)
AllSettings == "Symbol(all settings)"

IsSymbol(key) == key = AllSettings

STORAGE_AREAS == {"local", "managed", "sync"}

Callbacks == {"f", "g"}

Range(list) == {list[i] : i \in DOMAIN list}

\* a bucket kept as a list: every registration is appended
ListAdd(list, callback) == Append(list, callback)

\* Set.prototype.add: a value already in the Set keeps its place
SetAdd(list, callback) ==
    IF callback \in Range(list) THEN list ELSE Append(list, callback)

\* Set.prototype.delete
SetDelete(list, callback) ==
    SelectSeq(list, LAMBDA x : x # callback)

\* argument values of the overloaded listener calls
Str(s) == [type |-> "string", val |-> s]
Fn(c) == [type |-> "function", val |-> c]
Undefined == [type |-> "undefined", val |-> ""]

Truthy(a) == a.type = "function" \/ (a.type = "string" /\ a.val # "")

\* _getListenerArgs(a0, a1): {key, callback}, or the TypeError it throws
getListenerArgs(a0, a1) ==
    IF Truthy(a1)
    THEN IF a0.type # "string"
         THEN [error |-> TRUE, key |-> "", callback |-> ""]
         ELSE [error |-> FALSE, key |-> a0.val, callback |-> a1.val]
    ELSE IF a0.type # "function"
         THEN [error |-> TRUE, key |-> "", callback |-> ""]
         ELSE [error |-> FALSE, key |-> AllSettings, callback |-> a0.val]

\* the argument lists callers pass to addListener / removeListener
ListenerArgs ==
    {<<Str(k), Fn(c)>> : k \in Keys, c \in Callbacks}
    \cup {<<Fn(c), Undefined>> : c \in Callbacks}

\* argument lists of another shape than (key: string, callback: function)
\* and (callback: function): no key string, no callback, no function
MalformedArgs ==
    {<<Fn(c), Fn(c2)>> : c \in Callbacks, c2 \in Callbacks}
    \cup {<<Undefined, Fn(c)>> : c \in Callbacks}
    \cup {<<Str(k), Undefined>> : k \in Keys}
    \cup {<<Undefined, Undefined>>}
    \cup {<<Str(k), Str(x)>> : k \in Keys, x \in {"", "x"}}
    \cup {<<Fn(c), Str("x")>> : c \in Callbacks}

Idle == [pc |-> "idle", changes |-> <<>>, ki |-> 0, bucket |-> "", li |-> 0,
         list |-> <<>>, reg |-> EmptyObject]

\* the bucket after addListener's if/else on a key that is a real bucket or new
Added(key, callback) ==
    IF hasOwnProperty(listeners, key)
    THEN [listeners EXCEPT ![key] = SetAdd(@, callback)]
    ELSE Assign(listeners, Singleton(key, <<callback>>))

addListener(a0, a1) ==
    LET args == getListenerArgs(a0, a1) IN
    /\ d.pc = "idle"
    /\ IF args.error \/ (KeyIn(args.key, listeners) /\ ~hasOwnProperty(listeners, args.key))
       THEN \* _getListenerArgs throws, or the inherited member has no add()
            /\ thrown' = "TypeError"
            /\ again' = FALSE
            /\ UNCHANGED listeners
       ELSE /\ thrown' = "none"
            /\ listeners' = Added(args.key, args.callback)
            /\ again' = (/\ hasOwnProperty(listeners, args.key)
                         /\ args.callback \in Range(listeners[args.key]))
    /\ UNCHANGED <<storageName, subscribed, disposed, d, log>>
    /\ UNCHANGED storageVars
    /\ UNCHANGED accessVars

Removed(key, callback) ==
    IF hasOwnProperty(listeners, key)
    THEN [listeners EXCEPT ![key] = SetDelete(@, callback)]
    ELSE listeners

removeListener(a0, a1) ==
    LET args == getListenerArgs(a0, a1) IN
    /\ d.pc = "idle"
    /\ IF args.error \/ (KeyIn(args.key, listeners) /\ ~hasOwnProperty(listeners, args.key))
       THEN \* _getListenerArgs throws, or the inherited member has no delete()
            /\ thrown' = "TypeError"
            /\ UNCHANGED listeners
       ELSE /\ thrown' = "none"
            /\ listeners' = Removed(args.key, args.callback)
    /\ again' = FALSE
    /\ UNCHANGED <<storageName, subscribed, disposed, d, log>>
    /\ UNCHANGED storageVars
    /\ UNCHANGED accessVars

\* for (let key in obj): the enumerable string keys; a Symbol key is skipped
ForIn(obj) == {key \in DOMAIN obj : ~IsSymbol(key)}

\* dispose()'s loop: every own key that for-in visits is deleted
Disposed(L) ==
    [k \in DOMAIN L \ {key \in ForIn(L) : hasOwnProperty(L, key)} |-> L[k]]

\* browser.storage.onChanged.removeListener(this._onChanged)
FeedRemoved == FALSE

dispose ==
    /\ d.pc = "idle"
    /\ subscribed' = FeedRemoved
    /\ disposed' = TRUE
    /\ listeners' = Disposed(listeners)
    /\ again' = FALSE
    /\ thrown' = "none"
    /\ UNCHANGED <<storageName, d, log>>
    /\ UNCHANGED storageVars
    /\ UNCHANGED accessVars

(***************************************************************************)
(* _onChanged.  One step per listener invocation: a listener is caller     *)
(* code that returns, throws, or calls dispose() on the facade and then    *)
(* returns.  The position is the listener about to be invoked: the index   *)
(* ki of the changed key, the bucket being sent to, the index li in `list` *)
(* (the Set handed to _send).                                              *)
(***************************************************************************)
ChangeRecords == {[newValue |-> 1], [oldValue |-> 1, newValue |-> 2]}

KeySeqs(n) == {ks \in [1..n -> Keys] : \A i, j \in 1..n : ks[i] = ks[j] => i = j}

\* a change event: the changed keys, in the order for-in visits them
ChangeEvents ==
    UNION {{[i \in 1..n |-> [key |-> ks[i], change |-> cs[i]]] :
                ks \in KeySeqs(n), cs \in [1..n -> ChangeRecords]} : n \in 1..MaxChanges}

Position(pc, ki, bucket, li, list) ==
    [pc |-> pc, ki |-> ki, bucket |-> bucket, li |-> li, list |-> list]

RECURSIVE SendKey(_, _, _)
RECURSIVE SendAll(_, _, _)

\* the loop body with its two ifs exchanged: the wildcard bucket is sent to
\* first, the key's own bucket is not reached
SendAllFirst(L, changes, ki) ==
    IF ki > Len(changes)
    THEN Position("done", 0, "", 0, <<>>)
    ELSE SendAll(L, changes, ki)

\* the loop body for changes[ki], from `if (key in this._listeners)`
SendKey(L, changes, ki) ==
    IF ki > Len(changes)
    THEN Position("done", 0, "", 0, <<>>)
    ELSE LET key == changes[ki].key IN
         IF KeyIn(key, L)
         THEN IF ~hasOwnProperty(L, key)
              THEN \* for-of over an inherited member: it is not iterable
                   Position("error", ki, key, 0, <<>>)
              ELSE IF L[key] = <<>>
                   THEN SendAll(L, changes, ki)
                   ELSE Position("send", ki, key, 1, L[key])
         ELSE SendAll(L, changes, ki)

\* the loop body for changes[ki], from `if (AllSettings in this._listeners)`
SendAll(L, changes, ki) ==
    IF KeyIn(AllSettings, L) /\ L[AllSettings] # <<>>
    THEN Position("send", ki, AllSettings, 1, L[AllSettings])
    ELSE SendKey(L, changes, ki + 1)

\* where the dispatch stands after the listener at d.li has returned
AfterListener(L) ==
    IF d.li < Len(d.list)
    THEN Position("send", d.ki, d.bucket, d.li + 1, d.list)
    ELSE IF d.bucket = AllSettings
         THEN SendKey(L, d.changes, d.ki + 1)
         ELSE SendAll(L, d.changes, d.ki)

\* reg is the registry as the event found it
At(p, changes, reg) ==
    [pc |-> p.pc, changes |-> changes, ki |-> p.ki, bucket |-> p.bucket,
     li |-> p.li, list |-> p.list, reg |-> reg]

\* _onChanged without its area test: every event is dispatched
onChangedAnyArea(changes, areaName) ==
    At(SendKey(listeners, changes, 1), changes, listeners)

\* _onChanged(changes, areaName) up to its first listener
onChanged(changes, areaName) ==
    IF areaName # storageName
    THEN At(Position("ignored", 0, "", 0, <<>>), <<>>, EmptyObject)
    ELSE At(SendKey(listeners, changes, 1), changes, listeners)

\* the backend's event feed delivers an event to its subscribers
emit(changes, areaName) ==
    /\ d.pc = "idle"
    /\ d' = IF subscribed
            THEN onChanged(changes, areaName)
            ELSE At(Position("undelivered", 0, "", 0, <<>>), <<>>, EmptyObject)
    /\ log' = <<>>
    /\ thrown' = IF d'.pc = "error" THEN "TypeError" ELSE "none"
    /\ UNCHANGED <<storageName, listeners, subscribed, disposed, again>>
    /\ UNCHANGED storageVars
    /\ UNCHANGED accessVars

Behaviours == {"return", "throw", "dispose"}

Invocation ==
    [callback |-> d.list[d.li],
     key |-> d.changes[d.ki].key,
     change |-> d.changes[d.ki].change,
     bucket |-> d.bucket,
     disposed |-> disposed]

\* listener(changes[key], key)
invoke(behaviour) ==
    /\ d.pc = "send"
    /\ log' = Append(log, Invocation)
    /\ listeners' = IF behaviour = "dispose" THEN Disposed(listeners) ELSE listeners
    /\ subscribed' = IF behaviour = "dispose" THEN FeedRemoved ELSE subscribed
    /\ disposed' = IF behaviour = "dispose" THEN TRUE ELSE disposed
    /\ d' = IF behaviour = "throw"
            THEN At(Position("error", d.ki, d.bucket, d.li, d.list), d.changes, d.reg)
            ELSE At(AfterListener(listeners'), d.changes, d.reg)
    /\ thrown' = IF behaviour = "throw" THEN "ListenerError"
                 ELSE IF d'.pc = "error" THEN "TypeError" ELSE thrown
    /\ UNCHANGED <<storageName, again>>
    /\ UNCHANGED storageVars
    /\ UNCHANGED accessVars

\* _onChanged has returned or thrown; the event is over
eventOver ==
    /\ d.pc \in {"done", "error", "ignored", "undelivered"}
    /\ d' = Idle
    /\ log' = <<>>
    /\ UNCHANGED <<storageName, listeners, subscribed, disposed, again, thrown>>
    /\ UNCHANGED storageVars
    /\ UNCHANGED accessVars

(***************************************************************************)
(* get().  The read is issued when get() is called and served later; the   *)
(* backend hands back a plain object holding the stored keys among the     *)
(* requested ones, and get(key) reads property `key` of it.                *)
(***************************************************************************)
\* the value of a property read that finds nothing: undefined
UndefinedValue == 0

\* failures a backend call can settle with
BackendErrors == {"QuotaExceededError", "StorageIOError"}

\* obj[key]
Read(obj, key) == IF KeyIn(key, obj) THEN Lookup(obj, key) ELSE UndefinedValue

\* this._storage.get(key): the object the backend resolves the read with
StorageGet(key) ==
    IF key \in DOMAIN store THEN Singleton(key, store[key]) ELSE EmptyObject

ReadIdle == [pc |-> "idle", all |-> FALSE, key |-> "", value |-> UndefinedValue,
             items |-> EmptyObject]

\* get(key): (await this._storage.get(key))[key]
GetValue(key) == Read(StorageGet(key), key)

\* get(): await this._storage.get()
GetItems == store

\* get(key) is called: the backend read is issued
getKeyCall(key) ==
    /\ rd.pc \in {"idle", "done", "failed"}
    /\ rd' = [ReadIdle EXCEPT !.pc = "get", !.key = key]
    /\ thrown' = "none"
    /\ UNCHANGED <<accessors, properties, returned, first, made>>
    /\ UNCHANGED storageVars
    /\ UNCHANGED listenerVars

\* get() is called: the backend read of the whole area is issued
getAllCall ==
    /\ rd.pc \in {"idle", "done", "failed"}
    /\ rd' = [ReadIdle EXCEPT !.pc = "get", !.all = TRUE]
    /\ thrown' = "none"
    /\ UNCHANGED <<accessors, properties, returned, first, made>>
    /\ UNCHANGED storageVars
    /\ UNCHANGED listenerVars

\* the backend serves the read and get() resolves
getRead ==
    /\ rd.pc = "get"
    /\ rd' = IF rd.all
             THEN [rd EXCEPT !.pc = "done", !.items = GetItems]
             ELSE [rd EXCEPT !.pc = "done", !.value = GetValue(rd.key)]
    /\ UNCHANGED <<accessors, properties, returned, first, made, thrown>>
    /\ UNCHANGED storageVars
    /\ UNCHANGED listenerVars

\* the backend fails the read: the await throws and get() rejects with it
getFails(e) ==
    /\ rd.pc = "get"
    /\ rd' = [rd EXCEPT !.pc = "failed"]
    /\ thrown' = e
    /\ UNCHANGED <<accessors, properties, returned, first, made>>
    /\ UNCHANGED storageVars
    /\ UNCHANGED listenerVars

\* another writer of the same backend area (another page of the extension,
\* the sync service) stores or removes a key
otherWriter(key, value) ==
    /\ store' = IF value = UndefinedValue
                THEN [k \in DOMAIN store \ {key} |-> store[k]]
                ELSE Assign(store, Singleton(key, value))
    /\ store' # store
    /\ UNCHANGED <<defaults, inflight, init, thrown>>
    /\ UNCHANGED listenerVars
    /\ UNCHANGED accessVars

\* a facade that swallows the failure of a write: the call resolves
StorageFailsSwallowed(r, e) ==
    /\ r \in inflight
    /\ e \in BackendErrors
    /\ inflight' = inflight \ {r}
    /\ init' = IF r.origin = "initDefaults" THEN [init EXCEPT !.pc = "done"] ELSE init
    /\ UNCHANGED <<defaults, store, thrown>>
    /\ UNCHANGED listenerVars
    /\ UNCHANGED accessVars

\* the backend fails the write of request r: the promise set() returned
\* rejects with the backend's failure
StorageFails(r, e) ==
    /\ r \in inflight
    /\ inflight' = inflight \ {r}
    /\ init' = IF r.origin = "initDefaults" THEN [init EXCEPT !.pc = "done"] ELSE init
    /\ thrown' = e
    /\ UNCHANGED <<defaults, store>>
    /\ UNCHANGED listenerVars
    /\ UNCHANGED accessVars

\* the backend fails the read initDefaults() awaits: `await this.get()`
\* throws, initDefaults() rejects and the lines after the await do not run
initDefaultsReadFails(e) ==
    /\ init.pc = "get"
    /\ init' = [init EXCEPT !.pc = "done"]
    /\ thrown' = e
    /\ UNCHANGED <<defaults, store, inflight>>
    /\ UNCHANGED listenerVars
    /\ UNCHANGED accessVars

(***************************************************************************)
(* Accessor factory.  An object is a record; id tells accessor objects     *)
(* apart (the n-th accessor _makeAccessor creates has id n), and the       *)
(* objects that are no accessors have id 0.  A property read on the        *)
(* instance finds its own properties first, then StorageArea.prototype,    *)
(* then Object.prototype.                                                  *)
(***************************************************************************)
MaxAccessors == 4   \* accessor objects one instance creates

\* the own properties of the instance when _makeProperties() runs
OwnFields == {"defaults", "_storage", "_storageName", "_accessors", "_listeners",
              "_onChanged"}

\* the members of StorageArea.prototype
PrototypeMethods == {"dispose", "get", "initDefaults", "isDefined", "reset",
                     "resetAll", "set", "accessor", "addListener", "removeListener",
                     "_getListenerArgs", "_makeAccessor", "_makeProperties"}

\* the schemas whose keys meet the names the instance already has
AccessorSchemas ==
    {[a |-> 2, b |-> 3], [a |-> 2, toString |-> 1],
     [a |-> 2, dispose |-> 1], [a |-> 2, defaults |-> 1]}

\* the names callers read on the instance and pass to accessor()
FieldNames == {"a", "b", "toString", "dispose", "defaults"}

Object(kind, id, key, default) ==
    [kind |-> kind, id |-> id, key |-> key, default |-> default]

NoObject == Object("undefined", 0, "", UndefinedValue)

\* this.hasOwnProperty(key), as _makeProperties() finds the instance
InstanceHasOwnProperty(key) == key \in OwnFields

\* _makeProperties(): the keys that get a generated field
makeProperties(schema) ==
    {key \in DOMAIN schema :
        hasOwnProperty(schema, key) /\ ~InstanceHasOwnProperty(key)}

\* _makeAccessor(key): the next accessor object
makeAccessor(key) == Object("accessor", Len(made) + 1, key, Read(defaults, key))

\* accessor() without its cache: every call makes an accessor
AccessorFresh(key) == makeAccessor(key)

\* this._accessors[key] || this._makeAccessor(key)
AccessorOf(key) ==
    IF hasOwnProperty(accessors, key)
    THEN accessors[key]
    ELSE IF KeyIn(key, accessors)
         THEN Object("function", 0, key, UndefinedValue)
         ELSE makeAccessor(key)

\* the accessor(key) call: its result, the cache and the record of what
\* was created
AccessorCall(key, via) ==
    LET obj == AccessorOf(key)
        isNew == obj.kind = "accessor" /\ obj.id = Len(made) + 1
    IN  /\ isNew => Len(made) < MaxAccessors
        /\ returned' = [key |-> key, obj |-> obj, via |-> via]
        /\ accessors' = IF isNew THEN Assign(accessors, Singleton(key, obj)) ELSE accessors
        /\ made' = IF isNew THEN Append(made, obj) ELSE made
        /\ first' = IF key \in DOMAIN first THEN first
                    ELSE Assign(first, Singleton(key, obj))

accessor(key) ==
    /\ AccessorCall(key, "accessor")
    /\ thrown' = "none"
    /\ UNCHANGED <<rd, properties>>
    /\ UNCHANGED storageVars
    /\ UNCHANGED listenerVars

\* a read of instance[name]
readField(name) ==
    /\ IF name \in properties
       THEN \* the generated getter: () => this.accessor(key)
            AccessorCall(name, "field")
       ELSE /\ returned' = [key |-> name, via |-> "member",
                            obj |-> IF name \in OwnFields
                                    THEN Object("data", 0, name, UndefinedValue)
                                    ELSE IF name \in PrototypeMethods
                                    THEN Object("method", 0, name, UndefinedValue)
                                    ELSE IF name \in ObjectPrototypeKeys
                                    THEN Object("function", 0, name, UndefinedValue)
                                    ELSE NoObject]
            /\ UNCHANGED <<accessors, made, first>>
    /\ thrown' = "none"
    /\ UNCHANGED <<rd, properties>>
    /\ UNCHANGED storageVars
    /\ UNCHANGED listenerVars

(***************************************************************************)
(* The operations of the object accessor(key) returned last: the caller    *)
(* writes area.accessor(key).set(value) and the like.  An accessor         *)
(* forwards to the facade with the key it was created for; calling a       *)
(* member that the returned object does not have throws a TypeError.       *)
(***************************************************************************)
\* returned.obj.<member>(...) where <member> is undefined
NotAFunction(registryCall) ==
    /\ thrown' = "TypeError"
    /\ again' = IF registryCall THEN FALSE ELSE again
    /\ UNCHANGED <<storageName, listeners, subscribed, disposed, d, log>>
    /\ UNCHANGED storageVars
    /\ UNCHANGED accessVars

\* get: () => this.get(key)
accessorGet ==
    /\ returned.via = "accessor"
    /\ IF returned.obj.kind = "accessor"
       THEN getKeyCall(returned.obj.key)
       ELSE NotAFunction(FALSE)

\* set: (value) => this.set(key, value)
accessorSet(value) ==
    /\ returned.via = "accessor"
    /\ IF returned.obj.kind = "accessor"
       THEN set(StringArg(returned.obj.key, value))
       ELSE NotAFunction(FALSE)

\* reset: () => this.reset(key)
accessorReset ==
    /\ returned.via = "accessor"
    /\ IF returned.obj.kind = "accessor"
       THEN reset(returned.obj.key)
       ELSE NotAFunction(FALSE)

\* addListener: (callback) => this.addListener(key, callback)
accessorAddListener(callback) ==
    /\ returned.via = "accessor"
    /\ IF returned.obj.kind = "accessor"
       THEN addListener(Str(returned.obj.key), Fn(callback))
       ELSE NotAFunction(TRUE)

\* removeListener: (callback) => this.removeListener(key, callback)
accessorRemoveListener(callback) ==
    /\ returned.via = "accessor"
    /\ IF returned.obj.kind = "accessor"
       THEN removeListener(Str(returned.obj.key), Fn(callback))
       ELSE NotAFunction(TRUE)

InitAccess ==
    /\ rd = ReadIdle
    /\ accessors = EmptyObject
    /\ properties = makeProperties(defaults)
    /\ returned = [key |-> "", obj |-> NoObject, via |-> ""]
    /\ first = EmptyObject
    /\ made = <<>>

\* the stored maps a backend can hold when the facade is constructed
StoredMaps ==
    UNION {[S -> Values \cup {3}] : S \in SUBSET Keys}

InitListenersIdle ==
    /\ storageName = "local"
    /\ listeners = EmptyObject
    /\ subscribed = TRUE
    /\ disposed = FALSE
    /\ again = FALSE
    /\ d = Idle
    /\ log = <<>>

InitStorage ==
    /\ defaults \in {Obj(s) : s \in Schemas}
    /\ store \in {Obj(m) : m \in StoredMaps}
    /\ inflight = {}
    /\ init = InitIdle
    /\ thrown = "none"
    /\ InitListenersIdle
    /\ InitAccess

NextStorage ==
    \/ \E arg \in SetArgs : set(arg)
    \/ \E key \in Keys : reset(key)
    \/ resetAll
    \/ initDefaultsCall
    \/ initDefaultsRead
    \/ initDefaultsWrite
    \/ \E r \in inflight : WriteLands(r)
    \/ \E r \in inflight : WriteRejected(r)

SpecStorage == InitStorage /\ [][NextStorage]_vars

InitListeners ==
    /\ defaults = Obj([a |-> 2, b |-> 3])
    /\ store = EmptyObject
    /\ inflight = {}
    /\ init = InitIdle
    /\ thrown = "none"
    /\ storageName = "local"
    /\ listeners = EmptyObject
    /\ subscribed = TRUE
    /\ disposed = FALSE
    /\ again = FALSE
    /\ d = Idle
    /\ log = <<>>
    /\ InitAccess

NextListeners ==
    \/ \E args \in ListenerArgs : addListener(args[1], args[2])
    \/ \E args \in ListenerArgs : removeListener(args[1], args[2])
    \/ dispose
    \/ \E changes \in ChangeEvents, areaName \in STORAGE_AREAS : emit(changes, areaName)
    \/ \E behaviour \in Behaviours : invoke(behaviour)
    \/ eventOver

SpecListeners == InitListeners /\ [][NextListeners]_vars

\* the registry calls with every argument shape a caller can pass
NextArgs ==
    \/ \E args \in ListenerArgs \cup MalformedArgs : addListener(args[1], args[2])
    \/ \E args \in ListenerArgs \cup MalformedArgs : removeListener(args[1], args[2])
    \/ dispose

SpecArgs == InitListeners /\ [][NextArgs]_vars

\* reads of a backend area that the facade and other writers write
InitReads ==
    /\ defaults \in {Obj(s) : s \in Schemas}
    /\ store = EmptyObject
    /\ inflight = {}
    /\ init = InitIdle
    /\ thrown = "none"
    /\ InitListenersIdle
    /\ InitAccess

NextReads ==
    \/ \E key \in Keys : getKeyCall(key)
    \/ getAllCall
    \/ getRead
    \/ \E e \in BackendErrors : getFails(e)
    \/ \E key \in Keys, value \in Values \cup {UndefinedValue} : otherWriter(key, value)
    \/ \E arg \in SetArgs : set(arg)
    \/ \E r \in inflight : WriteLands(r)

SpecReads == InitReads /\ [][NextReads]_vars

\* the facade's calls on a backend whose reads and writes can fail
InitFailures ==
    /\ defaults \in {Obj(s) : s \in Schemas}
    /\ store = EmptyObject
    /\ inflight = {}
    /\ init = InitIdle
    /\ thrown = "none"
    /\ InitListenersIdle
    /\ InitAccess

NextFailures ==
    \/ getKeyCall("a")
    \/ getAllCall
    \/ getRead
    \/ \E e \in BackendErrors : getFails(e)
    \/ \E value \in Values : set(StringArg("a", value))
    \/ reset("a")
    \/ resetAll
    \/ initDefaultsCall
    \/ initDefaultsRead
    \/ \E e \in BackendErrors : initDefaultsReadFails(e)
    \/ initDefaultsWrite
    \/ \E r \in inflight : WriteLands(r)
    \/ \E r \in inflight, e \in BackendErrors : StorageFails(r, e)

SpecFailures == InitFailures /\ [][NextFailures]_vars

\* the accessor factory, among other calls on the facade
InitAccessors ==
    /\ defaults \in {Obj(s) : s \in AccessorSchemas}
    /\ store = EmptyObject
    /\ inflight = {}
    /\ init = InitIdle
    /\ thrown = "none"
    /\ InitListenersIdle
    /\ InitAccess

NextAccessors ==
    \/ \E key \in FieldNames : accessor(key)
    \/ \E name \in FieldNames : readField(name)
    \/ set(StringArg("a", 1))
    \/ \E r \in inflight : WriteLands(r)
    \/ addListener(Str("a"), Fn("f"))
    \/ dispose

SpecAccessors == InitAccessors /\ [][NextAccessors]_vars

\* the keys the two routes are compared on
ForwardedKeys == {"a", "toString"}

\* the operations of one key by both routes: through the accessor and on
\* the facade
InitForwarding ==
    /\ defaults = Obj([a |-> 2, toString |-> 1])
    /\ store = EmptyObject
    /\ inflight = {}
    /\ init = InitIdle
    /\ thrown = "none"
    /\ InitListenersIdle
    /\ InitAccess

NextForwarding ==
    \/ \E key \in ForwardedKeys : accessor(key)
    \/ accessorGet
    \/ accessorSet(1)
    \/ accessorReset
    \/ accessorAddListener("f")
    \/ accessorRemoveListener("f")
    \/ \E key \in ForwardedKeys : getKeyCall(key)
    \/ \E key \in ForwardedKeys : set(StringArg(key, 1))
    \/ \E key \in ForwardedKeys : reset(key)
    \/ \E key \in ForwardedKeys : addListener(Str(key), Fn("f"))
    \/ \E key \in ForwardedKeys : removeListener(Str(key), Fn("f"))
    \/ getRead
    \/ \E r \in inflight : WriteLands(r)

SpecForwarding == InitForwarding /\ [][NextForwarding]_vars

(***************************************************************************)
(* Properties of the storage operations (SpecStorage).                     *)
(***************************************************************************)

\* the write call a step issues, as a set (empty when the step issues none)
Issued == inflight' \ inflight

\* C1: initDefaults() issues one bulk write that holds exactly the schema
\* keys absent from the stored map it read, each with its declared default,
\* and no key that was present in that map.
C1_InitDefaultsWritesExactlyUnset ==
    [][(init.pc = "got" /\ init'.pc = "set") =>
        \E r \in Issued :
            /\ Issued = {r}
            /\ r.origin = "initDefaults"
            /\ DOMAIN r.items = DOMAIN defaults \ DOMAIN init.setItems
            /\ \A k \in DOMAIN r.items : r.items[k] = defaults[k]
            /\ DOMAIN r.items \cap DOMAIN init.setItems = {}]_vars

\* C2: initDefaults() decides on the map it read and writes later, with no
\* serialization between the two: every schema key it found unset in the map
\* it read is written with its default even when a set() has stored a value
\* for it since the read, and when the write lands that value is replaced by
\* the default.
C2_InitDefaultsRace ==
    /\ [][(init.pc = "got" /\ init'.pc = "set") =>
            \E r \in Issued :
                /\ r.origin = "initDefaults"
                /\ \A k \in DOMAIN defaults :
                      ~KeyIn(k, init.setItems) =>
                          k \in DOMAIN r.items /\ r.items[k] = defaults[k]]_vars
    /\ [][(init.pc = "set" /\ init'.pc = "done") =>
            \A r \in inflight \ inflight' :
                /\ r.origin = "initDefaults"
                /\ \A k \in DOMAIN r.items : store'[k] = defaults[k]
                /\ init'.lost =
                      {k \in DOMAIN r.items \cap DOMAIN store : store[k] # defaults[k]}]_vars

\* C2 witness: the write of initDefaults() has landed and replaced a value
\* that was stored after initDefaults() had read the key as unset.
C2_Witness ==
    /\ init.pc = "done"
    /\ \E k \in init.lost : k \in DOMAIN defaults /\ store[k] = defaults[k]

\* C8: reset(key) for a key without a declared default fails with the
\* no-default error and issues no write; the stored map stays as it was.
C8_ResetWithoutDefaultFails ==
    [][\A key \in Keys \ DOMAIN defaults :
          reset(key) =>
              /\ thrown' = "NoDefaultError"
              /\ inflight' = inflight
              /\ store' = store]_vars

\* C9: reset(key) for a key with a declared default issues the write
\* {key: default} whatever is stored for the key, and when that write lands
\* the key holds its default and every other key holds what it held.
C9_ResetWritesDefault ==
    /\ [][\A key \in DOMAIN defaults :
            reset(key) =>
                /\ Issued = {Request("reset", Singleton(key, defaults[key]))}
                /\ thrown' = "none"
                /\ store' = store]_vars
    /\ [][\A r \in inflight :
            (r.origin = "reset" /\ DOMAIN r.items \subseteq DOMAIN defaults /\ WriteLands(r)) =>
                \A key \in DOMAIN r.items :
                    /\ DOMAIN store' = DOMAIN store \cup {key}
                    /\ store'[key] = defaults[key]
                    /\ \A k \in DOMAIN store \ {key} : store'[k] = store[k]]_vars

\* C9 witness: a reset(key) write is in flight while the key holds a
\* customized value, another while it is unset, another while it holds the
\* default: here the customized case.
C9_Witness ==
    \E r \in inflight :
        /\ r.origin = "reset"
        /\ \E key \in DOMAIN r.items \cap DOMAIN defaults \cap DOMAIN store :
              /\ store[key] # defaults[key]
              /\ r.items[key] = defaults[key]

\* C10: resetAll() issues one bulk write holding the entire default map
\* whatever is stored, and when it lands every schema key holds its declared
\* default and every stored key outside the schema holds what it held.
C10_ResetAllWritesDefaults ==
    /\ [][resetAll => Issued = {Request("resetAll", defaults)}]_vars
    /\ [][\A r \in inflight :
            (r.origin = "resetAll" /\ WriteLands(r)) =>
                /\ DOMAIN store' = DOMAIN store \cup DOMAIN defaults
                /\ \A k \in DOMAIN defaults : store'[k] = defaults[k]
                /\ \A k \in DOMAIN store \ DOMAIN defaults : store'[k] = store[k]]_vars

\* C10 witness: a resetAll() write is in flight while a schema key holds a
\* customized value and a key outside the schema is stored.
C10_Witness ==
    \E r \in inflight :
        /\ r.origin = "resetAll"
        /\ \E k \in DOMAIN defaults \cap DOMAIN store : store[k] # defaults[k]
        /\ DOMAIN store \ DOMAIN defaults # {}

(***************************************************************************)
(* Properties of the Listener Registry and the dispatch (SpecListeners).   *)
(* They read the log of the running _onChanged call against d.reg, the     *)
(* registry as the event found it.                                         *)
(***************************************************************************)
ChangedKeys == {d.changes[i].key : i \in DOMAIN d.changes}

ChangeOf(key) == d.changes[CHOOSE i \in DOMAIN d.changes : d.changes[i].key = key].change

Bucket(reg, b) == IF b \in DOMAIN reg THEN reg[b] ELSE <<>>

IndexIn(list, x) == CHOOSE i \in DOMAIN list : list[i] = x

\* the invocations of callback with key, made while sending to bucket
Entries(callback, key, bucket) ==
    {i \in DOMAIN log :
        log[i].callback = callback /\ log[i].key = key /\ log[i].bucket = bucket}

Registered == {<<b, c>> \in (DOMAIN listeners) \X Callbacks : c \in Range(listeners[b])}

\* C3: once dispose() has been called on the instance, no listener that
\* was registered on it is invoked for a change event again.
C3_NoInvocationAfterDispose ==
    \A i \in DOMAIN log : ~log[i].disposed

\* C4: when a listener throws during the dispatch of a change event, the
\* remaining listeners of that dispatch (of the same key, the wildcard ones,
\* those of the remaining keys) are invoked all the same.
C4_ThrowDoesNotStopDispatch ==
    (d.pc = "error" /\ thrown = "ListenerError" /\ ~disposed) =>
        \A key \in ChangedKeys : \A b \in {key, AllSettings} :
            \A c \in Range(Bucket(d.reg, b)) : Entries(c, key, b) # {}

\* C5: for every change event of the facade's area, a wildcard listener is
\* invoked once for each changed key, with that key's change record and name;
\* a listener registered for key k is invoked if and only if k is among the
\* changed keys, and only with key k.
C5_Delivery ==
    (d.pc \in {"done", "error"} /\ ~disposed) =>
        /\ \A c \in Range(Bucket(d.reg, AllSettings)) : \A key \in ChangedKeys :
              Cardinality(Entries(c, key, AllSettings)) = 1
        /\ \A b \in DOMAIN d.reg \ {AllSettings} : \A c \in Range(d.reg[b]) :
              /\ Cardinality(Entries(c, b, b)) = (IF b \in ChangedKeys THEN 1 ELSE 0)
              /\ \A key \in Keys \ {b} : Entries(c, key, b) = {}
        /\ \A i \in DOMAIN log : log[i].change = ChangeOf(log[i].key)

\* C6: for each changed key of a dispatched event the listeners of that key
\* are invoked first, in registration order, and only then the wildcard
\* listeners, in registration order; no wildcard listener is invoked for a
\* key before a specific listener of that key.
C6_DispatchOrder ==
    /\ \A i, j \in DOMAIN log :
          (i < j /\ log[i].key = log[j].key) =>
              /\ ~(log[i].bucket = AllSettings /\ log[j].bucket # AllSettings)
              /\ log[i].bucket = log[j].bucket =>
                    IndexIn(d.reg[log[i].bucket], log[i].callback)
                        < IndexIn(d.reg[log[j].bucket], log[j].callback)
    /\ \A j \in DOMAIN log :
          (log[j].bucket = AllSettings /\ ~log[j].disposed) =>
              \A c \in Range(Bucket(d.reg, log[j].key)) :
                  \E i \in 1..(j - 1) :
                      /\ log[i].callback = c
                      /\ log[i].key = log[j].key
                      /\ log[i].bucket = log[j].key

\* C6 witness: a dispatch has ended in which, for one key, two listeners of
\* the key and two wildcard listeners were invoked.
C6_Witness ==
    /\ d.pc = "done"
    /\ \E key \in ChangedKeys :
          /\ Cardinality({i \in DOMAIN log : log[i].key = key /\ log[i].bucket = key}) = 2
          /\ Cardinality({i \in DOMAIN log : log[i].key = key /\ log[i].bucket = AllSettings}) = 2

NoRepetition(list) == \A i, j \in DOMAIN list : list[i] = list[j] => i = j

\* C7: registering a callback again under the bucket that holds it changes
\* nothing: a bucket never holds a callback twice, a callback is never invoked
\* twice for one changed key through one bucket and exactly once when the
\* dispatch runs to its end, and one removeListener call removes it.
C7_RegistrationIdempotent ==
    /\ [](\A b \in DOMAIN listeners : NoRepetition(listeners[b]))
    /\ [](\A i, j \in DOMAIN log :
            (/\ log[i].callback = log[j].callback
             /\ log[i].key = log[j].key
             /\ log[i].bucket = log[j].bucket) => i = j)
    /\ []((d.pc = "done" /\ ~disposed) =>
            \A key \in ChangedKeys : \A b \in {key, AllSettings} :
                \A c \in Range(Bucket(d.reg, b)) : Cardinality(Entries(c, key, b)) = 1)
    /\ [][(d.pc = "idle" /\ d'.pc = "idle") =>
            /\ again' => listeners' = listeners
            /\ \A args \in ListenerArgs :
                  (removeListener(args[1], args[2]) /\ thrown' = "none") =>
                      LET a == getListenerArgs(args[1], args[2]) IN
                      a.callback \notin Range(Bucket(listeners', a.key))]_vars

\* C7 witness: the only registration of the registry was made twice, an
\* event on its key was dispatched to the end and the callback was invoked
\* once.
C7_Witness ==
    /\ again
    /\ Cardinality(Registered) = 1
    /\ d.pc = "done"
    /\ Len(log) = 1
    /\ Len(d.changes) = 1

\* the state of the facade that a change event can reach
facadeState == <<defaults, storageName, listeners, subscribed, disposed, accessors,
                 properties>>

\* C13: a change event of another area than the facade's is ignored
\* entirely: it invokes no listener, key-specific or wildcard, and changes no
\* facade state, whatever its changed keys and whatever is registered.
C13_OtherAreaIgnored ==
    /\ [][(d.pc = "idle" /\ d'.pc # "idle") =>
            \A areaName \in STORAGE_AREAS \ {storageName} :
                (\E changes \in ChangeEvents : emit(changes, areaName)) =>
                    /\ d'.pc \in {"ignored", "undelivered"}
                    /\ log' = <<>>
                    /\ thrown' = "none"
                    /\ UNCHANGED facadeState]_vars
    /\ [][d.pc = "ignored" =>
            /\ d' = Idle
            /\ log = <<>> /\ log' = <<>>
            /\ UNCHANGED thrown
            /\ UNCHANGED facadeState]_vars

\* C13 witness: an event of another area was delivered to the handler while
\* the wildcard bucket and the buckets of the keys a and b held listeners.
C13_Witness ==
    /\ d.pc = "ignored"
    /\ subscribed
    /\ \A b \in {"a", "b", AllSettings} :
          b \in DOMAIN listeners /\ listeners[b] # <<>>

\* C15: dispose() unsubscribes the change handler from the backend feed and
\* empties the Listener Registry: after it no bucket, neither of a setting key
\* nor the wildcard bucket, holds a registration.
C15_DisposeEmptiesRegistry ==
    [][dispose => (~subscribed' /\ Registered' = {})]_vars

\* C18: removeListener undoes addListener and ignores an unregistered
\* callback: after removeListener the callback is not in the bucket and is
\* not invoked for later events, and a removeListener for a callback that the
\* bucket does not hold raises no error and leaves every bucket unchanged.
C18_RemoveListenerInverse ==
    /\ [][(d.pc = "idle" /\ d'.pc = "idle") =>
            \A args \in ListenerArgs :
                LET a == getListenerArgs(args[1], args[2]) IN
                removeListener(args[1], args[2]) =>
                    /\ thrown' = "none"
                    /\ a.callback \notin Range(Bucket(listeners', a.key))
                    /\ a.callback \notin Range(Bucket(listeners, a.key)) =>
                          listeners' = listeners
                    /\ \A b \in DOMAIN listeners \ {a.key} :
                          b \in DOMAIN listeners' /\ listeners'[b] = listeners[b]]_vars
    /\ [](\A i \in DOMAIN log :
            log[i].callback \in Range(Bucket(d.reg, log[i].bucket)))

\* C19: when a listener calls dispose() during the dispatch of a change
\* event, the dispatch ends there: once dispose() has returned no listener is
\* about to be invoked, neither a remaining one of the current key, nor a
\* wildcard one, nor one of the remaining changed keys.
C19_DisposeEndsDispatch ==
    disposed => d.pc # "send"

(***************************************************************************)
(* Properties of the argument check of the registry calls (SpecArgs).      *)
(***************************************************************************)

\* C16: addListener and removeListener called with a malformed argument
\* shape (a key that is no string, a missing callback, a callback that is no
\* function) fail with the invalid-argument error and leave the Listener
\* Registry as it was.
C16_MalformedArgsRejected ==
    [][\A args \in MalformedArgs :
          (addListener(args[1], args[2]) \/ removeListener(args[1], args[2])) =>
              /\ thrown' = "TypeError"
              /\ listeners' = listeners]_vars

(***************************************************************************)
(* Properties of get() (SpecReads).                                        *)
(***************************************************************************)

\* C11: reads never substitute defaults and never use a cached value:
\* get(key) resolves to the value the backend stores for the key when the
\* read is served, and to unset (never the declared default) when the key is
\* not stored; get() resolves to the stored map with no default merged in.
C11_GetResolvesStored ==
    [][(rd.pc = "get" /\ rd'.pc = "done") =>
          IF rd.all
          THEN rd'.items = store
          ELSE rd'.value = IF rd.key \in DOMAIN store THEN store[rd.key]
                           ELSE UndefinedValue]_vars

(***************************************************************************)
(* Properties of the accessor factory (SpecAccessors).                     *)
(***************************************************************************)

\* C12: accessor identity is stable: every accessor(key) call and every read
\* of the generated field of the key returns the object the first of them
\* returned, whatever facade operations come between, and at most one
\* accessor is ever created per key.
C12_AccessorIdentityStable ==
    /\ returned.via \in {"accessor", "field"} =>
          /\ returned.key \in DOMAIN first
          /\ returned.obj = first[returned.key]
    /\ \A i, j \in DOMAIN made : made[i].key = made[j].key => i = j
    /\ \A key \in DOMAIN accessors :
          /\ key \in DOMAIN first
          /\ accessors[key] = first[key]

\* C12 witness: after other accessors were created and the facade was written
\* to and disposed, a read of a generated field returned the accessor that an
\* earlier call had created for the key.
C12_Witness ==
    /\ returned.via = "field"
    /\ returned.obj.kind = "accessor"
    /\ returned.obj.id < Len(made)
    /\ disposed
    /\ store # EmptyObject

\* C14: a schema key whose name collides with a field already present on
\* the instance, the name of a facade method included, gets no generated
\* field: a read of that name on the instance still yields the instance's
\* own field or the facade method, never an accessor.
C14_CollidingKeySkipped ==
    /\ properties \cap (OwnFields \cup PrototypeMethods) = {}
    /\ (/\ returned.via \in {"field", "member"}
        /\ returned.key \in OwnFields \cup PrototypeMethods) =>
            returned.obj.kind \in {"data", "method"}

(***************************************************************************)
(* Properties of the calls on a failing backend (SpecFailures).            *)
(***************************************************************************)

\* C17: a backend read or write failure makes the facade call that issued
\* the backend call fail with that same failure, and nothing is retried: the
\* failing step issues no backend call, a facade call issues at most one, and
\* an initDefaults() whose read fails issues no write at all.
C17_BackendFailurePropagates ==
    /\ [][\A e \in BackendErrors :
            getFails(e) =>
                /\ rd'.pc = "failed"
                /\ thrown' = e
                /\ Issued = {} /\ inflight' = inflight
                /\ store' = store /\ init' = init]_vars
    /\ [][\A r \in inflight, e \in BackendErrors :
            StorageFails(r, e) =>
                /\ thrown' = e
                /\ inflight' = inflight \ {r}
                /\ store' = store /\ rd' = rd
                /\ init' = IF r.origin = "initDefaults"
                           THEN [init EXCEPT !.pc = "done"] ELSE init]_vars
    /\ [][\A e \in BackendErrors :
            initDefaultsReadFails(e) =>
                /\ init'.pc = "done"
                /\ thrown' = e
                /\ Issued = {} /\ inflight' = inflight
                /\ store' = store /\ rd' = rd]_vars
    /\ [][/\ Cardinality(Issued) <= 1
          /\ Issued # {} => (inflight \subseteq inflight' /\ thrown' \notin BackendErrors \ {thrown})
          /\ (rd'.pc = "get" /\ rd' # rd) => (rd.pc # "get" /\ thrown' = "none")
          /\ (init'.pc = "get" /\ init' # init) => (init.pc # "get" /\ thrown' = "none")]_vars
    /\ [](\A r \in inflight : r.origin = "initDefaults" => init.pc = "set")

\* C17 witness: a get() and an initDefaults() have failed on their reads with
\* the backend's failure, nothing is in flight and nothing was ever written.
C17_Witness ==
    /\ thrown \in BackendErrors
    /\ rd.pc = "failed"
    /\ init.pc = "done"
    /\ inflight = {}
    /\ store = EmptyObject

(***************************************************************************)
(* Properties of the accessor's operations (SpecForwarding).               *)
(***************************************************************************)

\* C20: the operations of the object accessor(k) returns are the facade's
\* key-scoped operations for k: its addListener and removeListener act on the
\* bucket of k as the facade's do, and its get, set and reset have the effect
\* on the backend and the result of the facade's get(k), set(k, v), reset(k).
C20_AccessorForwards ==
    [][returned.via = "accessor" =>
          /\ accessorGet => getKeyCall(returned.key)
          /\ accessorSet(1) => set(StringArg(returned.key, 1))
          /\ accessorReset => reset(returned.key)
          /\ accessorAddListener("f") => addListener(Str(returned.key), Fn("f"))
          /\ accessorRemoveListener("f") =>
                removeListener(Str(returned.key), Fn("f"))]_vars

====
